---- MODULE Spec2Model ----
(***************************************************************************)
(* State-machine model of streamlit_app.py: the month calculators, the     *)
(* date-range helper, the revenue (sales) pipeline and the KPI pipeline,   *)
(* with the two button handlers of main() that sequence them.              *)
(*                                                                         *)
(* Text is modelled as a sequence of characters; a character is a one-     *)
(* element name.  Characters outside ASCII are written by code point:      *)
(*   "U+5408" "U+8A08"  the two characters of the footer label (go-kei)    *)
(*   "U+4E09"           the CJK numeral three: str.isnumeric() is True     *)
(*                      for it although it is not one of 0-9               *)
(* Labels that the program writes in Japanese are written in romaji.       *)
(***************************************************************************)
EXTENDS Integers, Sequences, FiniteSets, TLC

VARIABLES
    pc,                 \* position of the program
    \* get_sales_months / get_kpi_months
    today,              \* datetime.now(JST): [year, month]
    current_year,
    current_month,
    months,             \* the list being built
    \* get_month_start_end_dates
    month_dt,           \* its argument
    dates,              \* its return value
    \* main(): the two button handlers
    unit,               \* 1-based index of the unit (data type or month) in progress
    selected_sales_timestamp,
    response,           \* the HTTP response last received by the unit in progress
    update_time_str,    \* the run timestamp read at shaping time
    result,             \* what the unit's fetch function returned
    run_log,            \* one entry per finished unit: what the operator was shown
    ftp_log,            \* one entry per STOR attempted
    \* process_kpi_tool / fetch_and_process_kpi_data
    selected_month_dt_list,
    page_num,
    all_kpi_data,       \* the rows accepted so far this month (run-length encoded)
    page_log            \* one entry per page requested this month

monthVars == <<today, current_year, current_month, months>>
dateVars == <<month_dt, dates>>
kpiVars == <<selected_month_dt_list, page_num, all_kpi_data, page_log>>
mainVars == <<unit, selected_sales_timestamp, response, update_time_str, result, run_log,
              ftp_log, kpiVars>>

vars == <<pc, monthVars, dateVars, mainVars>>

None == "None"

\* the locals of a function that is not running
NoResponse == [none |-> TRUE]
NoResult == [none |-> TRUE]

-----------------------------------------------------------------------------
(* Calendar arithmetic of datetime (proleptic Gregorian ordinals).         *)

\* f"{n:02d}" / %m / %d
Pad2(n) == IF n < 10 THEN "0" \o ToString(n) ELSE ToString(n)

\* calendar year test used by datetime
IsLeap(y) == y % 4 = 0 /\ (y % 100 # 0 \/ y % 400 = 0)

\* days in the year before the first of month m
DaysBeforeMonth(y, m) ==
    LET cum == <<0, 31, 59, 90, 120, 151, 181, 212, 243, 273, 304, 334>>
    IN  cum[m] + (IF m > 2 /\ IsLeap(y) THEN 1 ELSE 0)

\* days before January 1st of year y
DaysBeforeYear(y) ==
    LET p == y - 1 IN p * 365 + (p \div 4) - (p \div 100) + (p \div 400)

\* date.toordinal(): 0001-01-01 is day 1
Ymd2Ord(y, m, d) == DaysBeforeYear(y) + DaysBeforeMonth(y, m) + d

\* date.fromordinal(): the inverse, by the 400/100/4/1-year cycles
Ord2Ymd(ord) ==
    LET n0   == ord - 1
        n400 == n0 \div 146097
        r400 == n0 % 146097
        n100 == r400 \div 36524
        r100 == r400 % 36524
        n4   == r100 \div 1461
        r4   == r100 % 1461
        n1   == r4 \div 365
        n    == r4 % 365
        year == n400 * 400 + 1 + n100 * 100 + n4 * 4 + n1
    IN  IF n1 = 4 \/ n100 = 4
        THEN [year |-> year - 1, month |-> 12, day |-> 31]
        ELSE LET leap  == n1 = 3 /\ (n4 # 24 \/ n100 = 3)
                 extra(mm) == IF mm > 2 /\ leap THEN 1 ELSE 0
                 cum   == <<0, 31, 59, 90, 120, 151, 181, 212, 243, 273, 304, 334>>
                 mlen  == <<31, 28, 31, 30, 31, 30, 31, 31, 30, 31, 30, 31>>
                 m0    == (n + 50) \div 32
                 p0    == cum[m0] + extra(m0)
                 month == IF p0 > n THEN m0 - 1 ELSE m0
                 prec  == IF p0 > n
                          THEN p0 - (mlen[m0 - 1]
                                     + (IF m0 - 1 = 2 /\ leap THEN 1 ELSE 0))
                          ELSE p0
             IN  [year |-> year, month |-> month, day |-> n - prec + 1]

\* month_dt - timedelta(days=k) on a date
MinusDays(dt, k) == Ord2Ymd(Ymd2Ord(dt.year, dt.month, dt.day) - k)

\* strftime('%Y-%m-%d')
StrfYmd(dt) == ToString(dt.year) \o "-" \o Pad2(dt.month) \o "-" \o Pad2(dt.day)

\* int(JST.localize(datetime(y, m, 1, 0, 0, 0)).timestamp()): Asia/Tokyo is
\* UTC+9 without daylight saving for every date after 1951
JstMidnightEpoch(y, m) ==
    (Ymd2Ord(y, m, 1) - Ymd2Ord(1970, 1, 1)) * 86400 - 9 * 3600

\* f"{y}年{m:02d}月分" (romaji)
MonthLabel(y, m) == ToString(y) \o "nen" \o Pad2(m) \o "gatsubun"

-----------------------------------------------------------------------------
(* get_sales_months and get_kpi_months: one action per loop iteration.     *)

SALES_START_YEAR == 2023
SALES_START_MONTH == 10
KPI_START_YEAR == 2023
KPI_START_MONTH == 9

\* last year in which "now" is taken
MaxNowYear == 2025
MinNowYear == SALES_START_YEAR - 1

\* the variables of the operations that are not running
MonthsIdle ==
    /\ today = None
    /\ current_year = 0
    /\ current_month = 0
    /\ months = <<>>

DatesIdle ==
    /\ month_dt = None
    /\ dates = None

MainIdle ==
    /\ unit = 0
    /\ selected_sales_timestamp = 0
    /\ response = NoResponse
    /\ update_time_str = <<>>
    /\ result = NoResult
    /\ run_log = <<>>
    /\ ftp_log = <<>>
    /\ selected_month_dt_list = <<>>
    /\ page_num = 0
    /\ all_kpi_data = <<>>
    /\ page_log = <<>>

\* the floor month itself is cut off
SalesBelowFloorOffByOne(y, m) ==
    y < SALES_START_YEAR \/ (y = SALES_START_YEAR /\ m <= SALES_START_MONTH)

\* line 109 / 144: the loop's exit test
SalesBelowFloor(y, m) ==
    y < SALES_START_YEAR \/ (y = SALES_START_YEAR /\ m < SALES_START_MONTH)

KpiBelowFloor(y, m) ==
    y < KPI_START_YEAR \/ (y = KPI_START_YEAR /\ m < KPI_START_MONTH)

\* lines 123-127: step to the previous month
PrevMonth ==
    IF current_month = 1
    THEN /\ current_month' = 12
         /\ current_year' = current_year - 1
    ELSE /\ current_month' = current_month - 1
         /\ current_year' = current_year

SalesMonthsAppend ==
    /\ pc = "get_sales_months"
    /\ ~SalesBelowFloor(current_year, current_month)
    /\ months' = Append(months,
                        [label |-> MonthLabel(current_year, current_month),
                         timestamp |-> JstMidnightEpoch(current_year, current_month)])
    /\ PrevMonth
    /\ UNCHANGED <<pc, today, dateVars, mainVars>>

SalesMonthsBreak ==
    /\ pc = "get_sales_months"
    /\ SalesBelowFloor(current_year, current_month)
    /\ pc' = "sales_months_returned"
    /\ UNCHANGED <<monthVars, dateVars, mainVars>>

KpiMonthsAppend ==
    /\ pc = "get_kpi_months"
    /\ ~KpiBelowFloor(current_year, current_month)
    /\ months' = Append(months,
                        [label |-> MonthLabel(current_year, current_month),
                         dt |-> [year |-> current_year, month |-> current_month,
                                 day |-> 1]])
    /\ PrevMonth
    /\ UNCHANGED <<pc, today, dateVars, mainVars>>

KpiMonthsBreak ==
    /\ pc = "get_kpi_months"
    /\ KpiBelowFloor(current_year, current_month)
    /\ pc' = "kpi_months_returned"
    /\ UNCHANGED <<monthVars, dateVars, mainVars>>

InitMonths ==
    /\ pc \in {"get_sales_months", "get_kpi_months"}
    /\ today \in [year : MinNowYear..MaxNowYear, month : 1..12]
    /\ current_year = today.year
    /\ current_month = today.month
    /\ months = <<>>
    /\ DatesIdle
    /\ MainIdle

NextMonths ==
    \/ SalesMonthsAppend
    \/ SalesMonthsBreak
    \/ KpiMonthsAppend
    \/ KpiMonthsBreak

SpecMonths == InitMonths /\ [][NextMonths]_vars

\* the loop is a straight-line while: each iteration runs once it is reached
FairSpecMonths == SpecMonths /\ WF_vars(NextMonths)

-----------------------------------------------------------------------------
(* get_month_start_end_dates.                                              *)

\* last year of a month handed to get_month_start_end_dates
MaxDateYear == 2100

\* the last day from a fixed table of month lengths, without leap years
get_month_start_end_dates_fixed_lengths(dt) ==
    LET mlen == <<31, 28, 31, 30, 31, 30, 31, 31, 30, 31, 30, 31>>
    IN  <<ToString(dt.year) \o "-" \o Pad2(dt.month) \o "-01",
          ToString(dt.year) \o "-" \o Pad2(dt.month) \o "-" \o Pad2(mlen[dt.month]),
          ToString(dt.year) \o "-" \o Pad2(dt.month)>>

\* lines 165-179
get_month_start_end_dates(dt) ==
    LET from_date_str == ToString(dt.year) \o "-" \o Pad2(dt.month) \o "-01"
        next_month == IF dt.month = 12
                      THEN [year |-> dt.year + 1, month |-> 1, day |-> 1]
                      ELSE [year |-> dt.year, month |-> dt.month + 1, day |-> 1]
        last_day == MinusDays(next_month, 1)
        to_date_str == StrfYmd(last_day)
        file_prefix == ToString(dt.year) \o "-" \o Pad2(dt.month)
    IN  <<from_date_str, to_date_str, file_prefix>>

CallDates ==
    /\ pc = "get_month_start_end_dates"
    /\ dates' = get_month_start_end_dates(month_dt)
    /\ pc' = "dates_returned"
    /\ UNCHANGED <<monthVars, month_dt, mainVars>>

InitDates ==
    /\ pc = "get_month_start_end_dates"
    /\ month_dt \in [year : KPI_START_YEAR..MaxDateYear, month : 1..12, day : {1}]
    /\ dates = None
    /\ MonthsIdle
    /\ MainIdle

NextDates == CallDates

SpecDates == InitDates /\ [][NextDates]_vars

-----------------------------------------------------------------------------
(* Text: str.strip, str.replace, str.isnumeric, strftime, DataFrame.to_csv. *)

WhiteSpace == {" ", "LF"}

DecimalDigits == {"0", "1", "2", "3", "4", "5", "6", "7", "8", "9"}

\* characters with the Unicode property Numeric_Type: the decimal digits and,
\* among others, the CJK numerals
NumericChars == DecimalDigits \cup {"U+4E09"}

RECURSIVE LStrip(_)
LStrip(s) == IF s # <<>> /\ Head(s) \in WhiteSpace THEN LStrip(Tail(s)) ELSE s

RECURSIVE RStrip(_)
RStrip(s) ==
    IF s # <<>> /\ s[Len(s)] \in WhiteSpace THEN RStrip(SubSeq(s, 1, Len(s) - 1)) ELSE s

\* str.strip()
Strip(s) == RStrip(LStrip(s))

\* str.replace(c, '')
RemoveChar(s, c) == SelectSeq(s, LAMBDA x : x # c)

\* str.isdecimal(): digits 0-9 only
IsDecimal(s) == s # <<>> /\ \A i \in 1..Len(s) : s[i] \in DecimalDigits

\* str.isnumeric(): at least one character, all of them numeric
IsNumeric(s) == s # <<>> /\ \A i \in 1..Len(s) : s[i] \in NumericChars

DigitChar(d) == <<"0", "1", "2", "3", "4", "5", "6", "7", "8", "9">>[d + 1]

Digits2(n) == <<DigitChar(n \div 10), DigitChar(n % 10)>>

Digits4(n) == Digits2(n \div 100) \o Digits2(n % 100)

\* now_jst.strftime('%Y/%m/%d %H:%M')
StrfMinute(now) ==
    Digits4(now.year) \o <<"/">> \o Digits2(now.month) \o <<"/">> \o Digits2(now.day)
        \o <<" ">> \o Digits2(now.hour) \o <<":">> \o Digits2(now.minute)

\* csv.writer, QUOTE_MINIMAL: a field holding the delimiter, the quote character
\* or a line break is quoted, and its quote characters are doubled
CsvNeedsQuote(f) == \E i \in 1..Len(f) : f[i] \in {",", "DQ", "LF", "CR"}

RECURSIVE CsvDoubleQuotes(_)
CsvDoubleQuotes(f) ==
    IF f = <<>> THEN <<>>
    ELSE (IF Head(f) = "DQ" THEN <<"DQ", "DQ">> ELSE <<Head(f)>>)
             \o CsvDoubleQuotes(Tail(f))

CsvField(f) ==
    IF CsvNeedsQuote(f) THEN <<"DQ">> \o CsvDoubleQuotes(f) \o <<"DQ">> ELSE f

RECURSIVE CsvLine(_)
CsvLine(fields) ==
    IF Len(fields) = 0 THEN <<"LF">>
    ELSE IF Len(fields) = 1 THEN CsvField(fields[1]) \o <<"LF">>
    ELSE CsvField(Head(fields)) \o <<",">> \o CsvLine(Tail(fields))

\* DataFrame.to_csv(index=False, header=False): one line per row
RECURSIVE ToCsv(_)
ToCsv(rows) == IF rows = <<>> THEN <<>> ELSE CsvLine(Head(rows)) \o ToCsv(Tail(rows))

-----------------------------------------------------------------------------
(* The pages the remote service can answer with.                           *)

\* most data rows of a results table
MaxRows == 2

SeqsUpTo(S, n) == UNION {[1..k -> S] : k \in 0..n}

Acct1 == <<"a", "c", "c", "t", "1">>
Acct2 == <<"a", "c", "c", "t", "2">>
Filler == <<"x">>

\* a <tr> of the revenue table is the sequence of the texts of its <td> cells
SalesCells(amount, account) == <<Filler, Filler, Filler, amount, account>>

SalesRawRows ==
    { SalesCells(<<"1", ",", "2", "3", "4">>, Acct1),
      SalesCells(<<"U+5408", "U+8A08">>, <<>>),
      SalesCells(<<"U+4E09">>, Acct2),
      SalesCells(<<" ", "7", " ">>, <<" ", "a", ",", "b">>),
      SalesCells(<<",">>, Acct1),
      SalesCells(<<"0">>, <<"d", "u", "m", "m", "y">>) \o <<Filler>>,
      <<Filler, Filler, Filler, <<"5">>>> }

\* the header <tr> holds <th> cells only
HeaderRow == <<>>

\* soup.find('table', class_='table-type-02'): None, or the table's <tr> list
\* ([found |-> FALSE] is None)
NoTable == [found |-> FALSE, rows |-> <<>>]

SalesTables ==
    {NoTable}
        \cup [found : {TRUE},
              rows : {<<>>} \cup {<<HeaderRow>> \o rs :
                                     rs \in SeqsUpTo(SalesRawRows, MaxRows)}]

\* soup.find('p', class_=...) and the re.search on it: no such element, an
\* element the pattern does not match, or the text of the pattern's group 1
TotalTags ==
    { [found |-> FALSE, match |-> FALSE, group |-> <<>>],
      [found |-> TRUE, match |-> FALSE, group |-> <<>>],
      [found |-> TRUE, match |-> TRUE, group |-> <<"1", "2", ",", "3", "4", "5">>] }

NoTotalTag == [found |-> FALSE, match |-> FALSE, group |-> <<>>]

\* a page: its table, whether its text holds the two login markers
\* ("login" for U+30ED U+30B0 U+30A4 U+30F3, "signup" for U+4F1A U+54E1 U+767B U+9332),
\* and its summary element (read on the room_sales page only)
SalesBodies(data_type_key) ==
    {b \in [table : SalesTables, login : BOOLEAN, signup : BOOLEAN,
            total : IF data_type_key = "room_sales" THEN TotalTags ELSE {NoTotalTag}] :
        b.table.found => ~b.signup}

ErrorBodies ==
    [table : {NoTable}, login : BOOLEAN, signup : {FALSE}, total : {NoTotalTag}]

NoBody == [table |-> NoTable, login |-> FALSE, signup |-> FALSE, total |-> NoTotalTag]

\* session.get(): a transport exception, or a response with a status and a page
SalesResponses(data_type_key) ==
    {[exc |-> TRUE, status_code |-> 0, body |-> NoBody]}
        \cup [exc : {FALSE}, status_code : {200}, body : SalesBodies(data_type_key)]
        \cup [exc : {FALSE}, status_code : {403}, body : ErrorBodies]

\* datetime.now(JST) at shaping time
Nows ==
    { [year |-> 2025, month |-> 10, day |-> 5, hour |-> 9, minute |-> 3],
      [year |-> 2025, month |-> 11, day |-> 30, hour |-> 23, minute |-> 59] }

-----------------------------------------------------------------------------
(* fetch_and_process_sales_data.                                           *)

\* what a call yields when an exception leaves the function
Raised == [raised |-> TRUE]

\* an empty buffer returned in place of None
ReturnEmptyBuffer(message) ==
    [raised |-> FALSE, buffer |-> TRUE, csv |-> <<>>, shown |-> message]

\* return None, with the message shown to the operator
ReturnNone(message) == [raised |-> FALSE, buffer |-> FALSE, csv |-> <<>>, shown |-> message]

\* return csv_buffer
ReturnBuffer(text) == [raised |-> FALSE, buffer |-> TRUE, csv |-> text, shown |-> "ok"]

\* line 252: the test a row's amount must pass
AmountOk(amount_str) == IsNumeric(amount_str)

\* lines 245-256: the rows after the first, those with 5 cells or more and a
\* numeric amount
RECURSIVE SalesWalkRows(_)
SalesWalkRows(rows) ==
    IF rows = <<>> THEN <<>>
    ELSE LET td_tags == Head(rows)
             amount_str == RemoveChar(Strip(td_tags[4]), ",")
             account_id == Strip(td_tags[5])
         IN  (IF Len(td_tags) >= 5 /\ AmountOk(amount_str)
              THEN <<[amount |-> amount_str, account |-> account_id]>>
              ELSE <<>>)
                 \o SalesWalkRows(Tail(rows))

\* lines 241-256
SalesTableData(table) ==
    IF ~table.found \/ table.rows = <<>> THEN <<>> ELSE SalesWalkRows(Tail(table.rows))

\* the matched amount as written on the page, separators kept
SalesTotalAmountWithSeparators(total) ==
    IF total.found /\ total.match THEN total.group ELSE <<"0">>

\* lines 263-271
SalesTotalAmount(total) ==
    IF total.found /\ total.match THEN RemoveChar(total.group, ",") ELSE <<"0">>

\* df_cleaned without the placeholder row of an empty standard report
SalesDfCleanedNoPlaceholder(body, data_type_key) ==
    LET table_data == SalesTableData(body.table)
    IN  IF data_type_key = "room_sales"
        THEN <<[amount |-> SalesTotalAmount(body.total),
                account |-> <<"M", "K", "s", "o", "u", "l">>]>> \o table_data
        ELSE table_data

\* lines 261-301: df_cleaned
SalesDfCleaned(body, data_type_key) ==
    LET table_data == SalesTableData(body.table)
    IN  IF data_type_key = "room_sales"
        THEN <<[amount |-> SalesTotalAmount(body.total),
                account |-> <<"M", "K", "s", "o", "u", "l">>]>> \o table_data
        ELSE IF table_data = <<>>
             THEN <<[amount |-> <<"0">>, account |-> <<"d", "u", "m", "m", "y">>]>>
             ELSE table_data

\* the third column filled in every row
SalesFinalDfStampedRows(df_cleaned, update_time) ==
    [i \in 1..Len(df_cleaned) |->
        <<df_cleaned[i].amount, df_cleaned[i].account, update_time>>]

\* lines 308-315: the third column is empty except in the row of index 0
SalesFinalDf(df_cleaned, update_time) ==
    [i \in 1..Len(df_cleaned) |->
        <<df_cleaned[i].amount, df_cleaned[i].account,
          IF i = 1 THEN update_time ELSE <<>>>>]

\* the login marker alone, wherever a table was found or not
SalesAuthExpiredAnywhere(body) == body.login

\* lines 233-236: the page is taken for the login page
SalesAuthExpired(body) == ~body.table.found /\ (body.login \/ body.signup)

\* the exception is left to the caller
SalesOnExceptionEscapes == Raised

\* lines 328-331: except Exception
SalesOnException == ReturnNone("unexpected_error")

\* lines 207-331; the result is the returned buffer and the message shown
fetch_and_process_sales_data(resp, data_type_key, now) ==
    IF resp.exc THEN SalesOnException
    ELSE IF resp.status_code >= 400 THEN ReturnNone("http_error")
    ELSE IF SalesAuthExpired(resp.body) THEN ReturnNone("auth_expired")
    ELSE ReturnBuffer(ToCsv(SalesFinalDf(SalesDfCleaned(resp.body, data_type_key),
                                         StrfMinute(now))))

-----------------------------------------------------------------------------
(* upload_file_ftp and process_sales_tool; the revenue button of main().   *)

SalesKeys == <<"time_charge", "premium_live", "room_sales">>

\* DATA_TYPES[key]["filename"]
SalesFilename(data_type_key) ==
    CASE data_type_key = "time_charge" -> "show_rank_time_charge_hist_invoice_format.csv"
      [] data_type_key = "premium_live" -> "paid_live_hist_invoice_format.csv"
      [] data_type_key = "room_sales" ->
             "point_hist_with_mixed_rate_csv_donwload_for_room.csv"

\* FTP_CONFIG["target_base_path"] once lines 78-82 made it a directory path
FTP_TARGET_BASE_PATH == "target_base_path/"

\* what the FTP server does with a connect-login-STOR
FtpBehaviours == {"stored", "error"}

\* lines 480-503: True when the STOR went through, False when anything raised
upload_file_ftp(ftp) == [raised |-> FALSE, value |-> (ftp = "stored")]

\* the months the operator can pick in the revenue select box
SalesMonthChoices == {<<2025, 10>>}

\* lines 594-609: the revenue button is pressed with a month selected
ClickSales ==
    /\ pc = "idle"
    /\ \E ym \in SalesMonthChoices :
          selected_sales_timestamp' = JstMidnightEpoch(ym[1], ym[2])
    /\ unit' = 1
    /\ pc' = "sales_fetch"
    /\ UNCHANGED <<monthVars, dateVars, response, update_time_str, result, run_log,
                   ftp_log, kpiVars>>

\* line 522: the unit's page is fetched, parsed and shaped
SalesFetch ==
    /\ pc = "sales_fetch"
    /\ \E resp \in SalesResponses(SalesKeys[unit]), now \in Nows :
          /\ response' = resp
          /\ update_time_str' = StrfMinute(now)
          /\ result' = fetch_and_process_sales_data(resp, SalesKeys[unit], now)
    /\ pc' = IF result'.raised THEN "crashed" ELSE "sales_upload"
    /\ UNCHANGED <<monthVars, dateVars, unit, selected_sales_timestamp, run_log, ftp_log,
                   kpiVars>>

\* lines 524-532, and the return to main(): the next call, or the end of the run
SalesUpload ==
    /\ pc = "sales_upload"
    /\ IF result.buffer
       THEN \E ftp \in FtpBehaviours :
               LET ok == upload_file_ftp(ftp)
               IN  /\ ftp_log' = Append(ftp_log,
                                        [path |-> FTP_TARGET_BASE_PATH
                                                      \o SalesFilename(SalesKeys[unit]),
                                         for |-> SalesKeys[unit],
                                         stored |-> ~ok.raised /\ ok.value])
                   /\ run_log' = Append(run_log,
                                        [of |-> SalesKeys[unit],
                                         shown |-> IF ok.raised THEN "raised"
                                                   ELSE IF ok.value THEN "uploaded"
                                                   ELSE "upload_failed"])
                   /\ pc' = IF ok.raised THEN "crashed"
                            ELSE IF unit = Len(SalesKeys) THEN "sales_done"
                            ELSE "sales_fetch"
       ELSE /\ ftp_log' = ftp_log
            /\ run_log' = Append(run_log, [of |-> SalesKeys[unit], shown |-> result.shown])
            /\ pc' = IF unit = Len(SalesKeys) THEN "sales_done" ELSE "sales_fetch"
    /\ unit' = IF pc' = "sales_fetch" THEN unit + 1 ELSE unit
    /\ response' = NoResponse
    /\ update_time_str' = <<>>
    /\ result' = NoResult
    /\ UNCHANGED <<monthVars, dateVars, selected_sales_timestamp, kpiVars>>

-----------------------------------------------------------------------------
(* The KPI pages.  A page can hold a thousand rows, so the <tr> list of a  *)
(* table is kept run-length encoded: a run is `count` consecutive <tr>     *)
(* with the same cells.                                                    *)

KPI_MAX_PAGES == 5

\* line 447: a page with fewer accepted rows than this is the last one
KPI_PAGE_FULL == 1000

\* most runs of data rows on a KPI page
MaxRuns == 2

\* CSV_HEADERS, lines 352-359 (romaji/English names, in the source's order)
CSV_HEADERS ==
    << "account_id", "room_id", "start_datetime", "duration_min", "streak_days",
       "room_name",
       "total_views", "member_views", "action_members", "sp_gift_member_rate",
       "first_room_visitors",
       "first_sr_visitors", "short_stay", "room_level", "followers", "follower_delta",
       "post_members", "support_points", "comments", "commenters", "first_commenters",
       "gifts", "gifters", "first_gifters", "sg_gifting_count",
       "sg_gifting_members", "sg_total", "bonus_before_2023_09" >>

\* line 425: the headers whose thousands separators are removed
KpiCommaHeaders ==
    { "total_views", "member_views", "action_members", "support_points", "comments",
      "gifts", "followers", "room_level", "first_room_visitors", "first_sr_visitors",
      "short_stay", "follower_delta", "post_members", "commenters", "first_commenters",
      "gifters", "first_gifters", "sg_gifting_count", "sg_gifting_members", "sg_total" }

\* a nested element that is not there
NoTag == [found |-> FALSE, text |-> <<>>]

Tag(text) == [found |-> TRUE, text |-> text]

\* the groups of re.search(r'(\d{4}-\d{2}-\d{2}\s\d{2}:\d{2}:\d{2}).*?\((\d+)m(\d+)s\)')
\* on a cell's text: no match, or group 1 and the two integers
NoTime == [match |-> FALSE, start |-> <<>>, m |-> 0, s |-> 0]

Time(start, m, s) == [match |-> TRUE, start |-> start, m |-> m, s |-> s]

Start1 ==
    << "2", "0", "2", "5", "-", "1", "0", "-", "0", "1", " ",
       "1", "0", ":", "0", "0", ":", "0", "0" >>

\* a <tr> of the KPI table: the number of its <td> cells and what the cells
\* that differ from row to row hold (the account cell and its <a>, the room
\* cell, the groups the time pattern finds in the third cell, the follower cell)
KpiTr(n, account, account_a, room, time, followers) ==
    [n |-> n, account |-> account, account_a |-> account_a, room |-> room,
     time |-> time, followers |-> followers]

\* td_tags[i - 1].text: every cell not named in the row holds a fixed text
TdText(tr, i) ==
    CASE i = 1 -> tr.account
      [] i = 2 -> tr.room
      [] i = 3 -> <<"t">>
      [] i = 6 -> <<" ", "n", "m">>
      [] i = 10 -> <<"5", "%">>
      [] i = 15 -> tr.followers
      [] OTHER -> <<DigitChar(i % 10)>>

\* td_tags[i - 1].find('a')
TdA(tr, i) == IF i = 1 THEN tr.account_a ELSE NoTag

\* td_tags[i - 1].find('div')
TdDiv(tr, i) == IF i = 6 THEN Tag(<<"n", " ">>) ELSE NoTag

KpiRowA ==
    KpiTr(28, <<"a", "1", "x">>, Tag(<<"a", "1">>), <<"r", "1">>, Time(Start1, 5, 10),
          <<"1", ",", "0", "0", "0">>)

\* the key of KpiRowA once extracted (4m30s rounds up to 5), other followers
KpiRowB ==
    KpiTr(28, <<" ", "a", "1">>, NoTag, <<"r", "1">>, Time(Start1, 4, 30), <<"7">>)

\* no start time in the third cell
KpiRowC == KpiTr(28, <<"a", "1">>, NoTag, <<"r", "1">>, NoTime, <<"8">>)

KpiRawRows == {KpiRowA, KpiRowB, KpiRowC}

\* a row of 27 cells
KpiShortRow == KpiTr(27, <<"a", "1">>, NoTag, <<"r", "1">>, Time(Start1, 5, 10), <<"9">>)

\* the header row: <th> cells only
KpiHeaderTr == KpiTr(0, <<>>, NoTag, <<>>, NoTime, <<>>)

KpiRunLengths == {400, KPI_PAGE_FULL}

KpiRuns ==
    [tr : KpiRawRows, count : KpiRunLengths] \cup {[tr |-> KpiShortRow, count |-> 1]}

KpiHeaderRun == [tr |-> KpiHeaderTr, count |-> 1]

RECURSIVE RunsTotal(_)
RunsTotal(runs) == IF runs = <<>> THEN 0 ELSE Head(runs).count + RunsTotal(Tail(runs))

\* the service puts at most KPI_PAGE_FULL data rows on a page
KpiTables ==
    {NoTable}
        \cup [found : {TRUE},
              rows : {<<>>} \cup {<<KpiHeaderRun>> \o rs :
                                     rs \in {x \in SeqsUpTo(KpiRuns, MaxRuns) :
                                                RunsTotal(x) <= KPI_PAGE_FULL}}]

KpiBodies == [table : KpiTables, login : BOOLEAN, signup : BOOLEAN, total : {NoTotalTag}]

KpiResponses ==
    {[exc |-> TRUE, status_code |-> 0, body |-> NoBody]}
        \cup [exc : {FALSE}, status_code : {200},
              body : {b \in KpiBodies : b.table.found => ~b.signup}]
        \cup [exc : {FALSE}, status_code : {403}, body : ErrorBodies]

-----------------------------------------------------------------------------
(* fetch_and_process_kpi_data: one action per page of the loop.            *)

RECURSIVE IntToChars(_)
\* str(n) for n >= 0
IntToChars(n) ==
    IF n < 10 THEN <<DigitChar(n)>> ELSE IntToChars(n \div 10) \o <<DigitChar(n % 10)>>

\* str.replace(a, b) on single characters
ReplaceChar(s, a, b) == [i \in 1..Len(s) |-> IF s[i] = a THEN b ELSE s[i]]

\* line 410
KpiDurationMin(minutes, seconds) == IF seconds >= 30 THEN minutes + 1 ELSE minutes

\* every column read from the cell at its own position, the duration too
KpiRowDataByPosition(td_tags) ==
    [h \in 1..Len(CSV_HEADERS) |->
        IF h = 3 /\ td_tags.time.match THEN ReplaceChar(td_tags.time.start, "-", "/")
        ELSE IF h = 3 THEN <<>>
        ELSE IF h \in {1, 2} /\ TdA(td_tags, h).found THEN Strip(TdA(td_tags, h).text)
        ELSE IF h = 6 /\ TdDiv(td_tags, h).found THEN Strip(TdDiv(td_tags, h).text)
        ELSE RemoveChar(RemoveChar(Strip(TdText(td_tags, h)), ","), "%")]

\* lines 400-439: row_data, as the sequence of its values in CSV_HEADERS order
KpiRowData(td_tags) ==
    LET match_time == td_tags.time
        start_datetime_str ==
            IF match_time.match THEN ReplaceChar(match_time.start, "-", "/") ELSE <<>>
        duration_min ==
            IF match_time.match THEN KpiDurationMin(match_time.m, match_time.s) ELSE 0
    IN  [h \in 1..Len(CSV_HEADERS) |->
            LET header == CSV_HEADERS[h]
                content == Strip(TdText(td_tags, h))
                div_tag == TdDiv(td_tags, h)
                a_tag == TdA(td_tags, h)
                transformed ==
                    IF header \in KpiCommaHeaders THEN RemoveChar(content, ",")
                    ELSE IF header = "sp_gift_member_rate" THEN RemoveChar(content, "%")
                    ELSE IF header = "room_name" /\ div_tag.found THEN Strip(div_tag.text)
                    ELSE content
            IN  IF header = "start_datetime" THEN start_datetime_str
                ELSE IF header = "duration_min" THEN IntToChars(duration_min)
                ELSE IF h \in {1, 2} /\ a_tag.found THEN Strip(a_tag.text)
                ELSE transformed]

\* row_data of every 28-cell row a page can hold
KpiRowDataOf == [tr \in KpiRawRows |-> KpiRowData(tr)]

\* rows[1:] on a run-length encoded list
RunsDropFirst(runs) ==
    IF runs = <<>> THEN <<>>
    ELSE IF Head(runs).count = 1 THEN Tail(runs)
    ELSE <<[Head(runs) EXCEPT !.count = @ - 1]>> \o Tail(runs)

\* lines 394-441: page_data, the rows of exactly 28 cells
RECURSIVE KpiWalkRows(_)
KpiWalkRows(runs) ==
    IF runs = <<>> THEN <<>>
    ELSE (IF Head(runs).tr.n # 28 THEN <<>>
          ELSE <<[row |-> KpiRowDataOf[Head(runs).tr], count |-> Head(runs).count]>>)
             \o KpiWalkRows(Tail(runs))

\* line 381: the page is taken for the login page
KpiAuthExpired(body) == ~body.table.found /\ body.login

\* a full page taken for the last one
KpiPageShortOrFull(page_data) == RunsTotal(page_data) <= KPI_PAGE_FULL

\* line 447: the page was the last one
KpiPageShort(page_data) == RunsTotal(page_data) < KPI_PAGE_FULL

\* what one pass of the loop body does with a response (lines 363-457):
\* return None, break, or go on, with the rows it accepted
KpiPage(resp) ==
    IF resp.exc THEN [go |-> "return_none", shown |-> "unexpected_error", page_data |-> <<>>]
    ELSE IF resp.status_code >= 400
    THEN [go |-> "return_none", shown |-> "http_error", page_data |-> <<>>]
    ELSE IF KpiAuthExpired(resp.body)
    THEN [go |-> "return_none", shown |-> "auth_expired", page_data |-> <<>>]
    ELSE IF ~resp.body.table.found
    THEN [go |-> "break", shown |-> "no_table", page_data |-> <<>>]
    ELSE IF RunsTotal(resp.body.table.rows) <= 1
    THEN [go |-> "break", shown |-> "header_only", page_data |-> <<>>]
    ELSE LET page_data == KpiWalkRows(RunsDropFirst(resp.body.table.rows))
         IN  [go |-> IF KpiPageShort(page_data) THEN "break" ELSE "continue",
              shown |-> "rows", page_data |-> page_data]

\* the dedup key, line 466
KpiKey(row_data) == <<row_data[1], row_data[2], row_data[3], row_data[4]>>

\* drop_duplicates(subset=dedup_keys, keep='last')
RECURSIVE KpiDropDuplicatesKeepLast(_, _)
KpiDropDuplicatesKeepLast(runs, seen) ==
    IF runs = <<>> THEN <<>>
    ELSE LET k == KpiKey(Head(runs).row)
             later == {KpiKey(runs[i].row) : i \in 2..Len(runs)}
         IN  IF k \in later THEN KpiDropDuplicatesKeepLast(Tail(runs), seen)
             ELSE <<Head(runs).row>> \o KpiDropDuplicatesKeepLast(Tail(runs), seen)

\* drop_duplicates(subset=dedup_keys, keep='first')
RECURSIVE KpiDropDuplicates(_, _)
KpiDropDuplicates(runs, seen) ==
    IF runs = <<>> THEN <<>>
    ELSE LET k == KpiKey(Head(runs).row)
         IN  IF k \in seen THEN KpiDropDuplicates(Tail(runs), seen)
             ELSE <<Head(runs).row>> \o KpiDropDuplicates(Tail(runs), seen \cup {k})

\* return df_cleaned, with the number of rows reported as removed
ReturnFrame(df, removed) ==
    [raised |-> FALSE, buffer |-> TRUE, df |-> df, removed |-> removed, shown |-> "ok"]

ReturnNoFrame(message) ==
    [raised |-> FALSE, buffer |-> FALSE, df |-> <<>>, removed |-> 0, shown |-> message]

\* None returned when no row was collected
KpiAfterLoopNoneWhenEmpty(all_data) ==
    IF all_data = <<>> THEN ReturnNoFrame("no_data")
    ELSE LET df_cleaned == KpiDropDuplicates(all_data, {})
         IN  ReturnFrame(df_cleaned, RunsTotal(all_data) - Len(df_cleaned))

\* lines 459-476: after the loop
KpiAfterLoop(all_data) ==
    IF all_data = <<>> THEN ReturnFrame(<<>>, 0)
    ELSE LET df_cleaned == KpiDropDuplicates(all_data, {})
         IN  ReturnFrame(df_cleaned, RunsTotal(all_data) - Len(df_cleaned))

\* the line to_csv writes for the header, each header name one token
KpiCsvHeaderLine == CsvLine([h \in 1..Len(CSV_HEADERS) |-> <<CSV_HEADERS[h]>>])

\* the line to_csv writes for each row a frame can hold
KpiCsvLineOf == [row \in {KpiRowDataOf[tr] : tr \in KpiRawRows} |-> CsvLine(row)]

RECURSIVE KpiCsvLines(_)
KpiCsvLines(df) ==
    IF df = <<>> THEN <<>> ELSE KpiCsvLineOf[Head(df)] \o KpiCsvLines(Tail(df))

\* DataFrame.to_csv(index=False, header=True): the header line, then one line
\* per row
KpiToCsv(df) == KpiCsvHeaderLine \o KpiCsvLines(df)

\* lines 560-564: a frame that is not None is written to csv_buffer
KpiCsvBuffer(df_cleaned) ==
    IF df_cleaned.buffer THEN df_cleaned @@ [csv |-> KpiToCsv(df_cleaned.df)]
    ELSE df_cleaned

-----------------------------------------------------------------------------
(* process_kpi_tool; the KPI button of main().                             *)

KPI_FTP_BASE_PATH == "/mksoul-pro.com/showroom/csv/"

\* the months the operator can pick in the KPI multiselect
KpiMonthChoices ==
    { [year |-> 2023, month |-> 12, day |-> 1],
      [year |-> 2024, month |-> 2, day |-> 1] }

\* datetime's order
DtBefore(a, b) == a.year < b.year \/ (a.year = b.year /\ a.month < b.month)

\* line 636: the selected months in the order of kpi_month_options, latest first
RECURSIVE OptionsOrder(_)
OptionsOrder(sel) ==
    IF sel = {} THEN <<>>
    ELSE LET latest == CHOOSE d \in sel : \A e \in sel \ {d} : DtBefore(e, d)
         IN  <<latest>> \o OptionsOrder(sel \ {latest})

RECURSIVE SortInsert(_, _)
SortInsert(sorted, d) ==
    IF sorted = <<>> THEN <<d>>
    ELSE IF DtBefore(d, Head(sorted)) THEN <<d>> \o sorted
    ELSE <<Head(sorted)>> \o SortInsert(Tail(sorted), d)

\* line 544: list.sort()
RECURSIVE SortMonths(_)
SortMonths(list) ==
    IF list = <<>> THEN <<>> ELSE SortInsert(SortMonths(Tail(list)), Head(list))

\* lines 540-546: the KPI button is pressed with some months selected
ClickKpi ==
    /\ pc = "idle"
    /\ \E sel \in SUBSET KpiMonthChoices :
          /\ selected_month_dt_list' = SortMonths(OptionsOrder(sel))
          /\ pc' = IF sel = {} THEN "kpi_done" ELSE "kpi_page"
          /\ unit' = IF sel = {} THEN 0 ELSE 1
          /\ page_num' = IF sel = {} THEN 0 ELSE 1
    /\ UNCHANGED <<monthVars, dateVars, selected_sales_timestamp, response,
                   update_time_str, result, run_log, ftp_log, all_kpi_data, page_log>>

\* lines 362-476: one page is requested and handled; when the loop ends with
\* it, the rows collected are deduplicated and returned, and process_kpi_tool
\* writes the frame it got to csv_buffer (lines 560-564)
KpiFetchPage ==
    /\ pc = "kpi_page"
    /\ \E resp \in KpiResponses :
          LET range == get_month_start_end_dates(selected_month_dt_list[unit])
              p == KpiPage(resp)
              all == all_kpi_data \o p.page_data
              last == p.go = "break" \/ (p.go = "continue" /\ page_num = KPI_MAX_PAGES)
          IN  /\ response' = resp
              /\ page_log' = Append(page_log,
                                    [page |-> page_num, from_date |-> range[1],
                                     to_date |-> range[2], shown |-> p.shown,
                                     accepted |-> RunsTotal(p.page_data)])
              /\ all_kpi_data' = all
              /\ result' = IF p.go = "raise" THEN Raised
                           ELSE IF p.go = "return_none"
                           THEN KpiCsvBuffer(ReturnNoFrame(p.shown))
                           ELSE IF last THEN KpiCsvBuffer(KpiAfterLoop(all))
                           ELSE NoResult
              /\ pc' = IF p.go = "raise" THEN "crashed"
                       ELSE IF p.go = "return_none" \/ last THEN "kpi_upload"
                       ELSE "kpi_page"
              /\ page_num' = IF p.go = "continue" /\ ~last THEN page_num + 1 ELSE page_num
    /\ UNCHANGED <<monthVars, dateVars, unit, selected_sales_timestamp,
                   selected_month_dt_list, update_time_str, run_log, ftp_log>>

\* lines 566-577, and the next month of the loop of line 548
KpiUpload ==
    /\ pc = "kpi_upload"
    /\ LET month_dt_ == selected_month_dt_list[unit]
           month_label == MonthLabel(month_dt_.year, month_dt_.month)
           target_filename == get_month_start_end_dates(month_dt_)[3] \o "_all_all.csv"
           more == unit < Len(selected_month_dt_list)
       IN  IF result.buffer
           THEN \E ftp \in FtpBehaviours :
                   LET ok == upload_file_ftp(ftp)
                   IN  /\ ftp_log' = Append(ftp_log,
                                            [path |-> KPI_FTP_BASE_PATH \o target_filename,
                                             for |-> month_label,
                                             stored |-> ~ok.raised /\ ok.value])
                       /\ run_log' = Append(run_log,
                                            [of |-> month_label,
                                             shown |-> IF ok.raised THEN "raised"
                                                       ELSE IF ok.value THEN "uploaded"
                                                       ELSE "upload_failed"])
                       /\ pc' = IF ok.raised THEN "crashed"
                                ELSE IF more THEN "kpi_page" ELSE "kpi_done"
           ELSE /\ ftp_log' = ftp_log
                /\ run_log' = Append(run_log, [of |-> month_label, shown |-> result.shown])
                /\ pc' = IF more THEN "kpi_page" ELSE "kpi_done"
    /\ unit' = IF pc' = "kpi_page" THEN unit + 1 ELSE unit
    /\ page_num' = 1
    /\ all_kpi_data' = <<>>
    /\ page_log' = <<>>
    /\ response' = NoResponse
    /\ result' = NoResult
    /\ UNCHANGED <<monthVars, dateVars, selected_sales_timestamp, selected_month_dt_list,
                   update_time_str>>

Init ==
    /\ pc = "idle"
    /\ MonthsIdle
    /\ DatesIdle
    /\ MainIdle

NextSales ==
    \/ ClickSales
    \/ SalesFetch
    \/ SalesUpload

NextKpi ==
    \/ ClickKpi
    \/ KpiFetchPage
    \/ KpiUpload

Next ==
    \/ ClickSales
    \/ SalesFetch
    \/ SalesUpload
    \/ ClickKpi
    \/ KpiFetchPage
    \/ KpiUpload

\* main(): either button
Spec == Init /\ [][Next]_vars

\* the revenue button alone
SpecSales == Init /\ [][NextSales]_vars

\* the KPI button alone
SpecKpi == Init /\ [][NextKpi]_vars

-----------------------------------------------------------------------------
(* Properties of the month calculators and of the date-range helper.       *)

C7_Idx(y, m) == y * 12 + (m - 1)

C7_YearOf(i) == i \div 12

C7_MonthOf(i) == (i % 12) + 1

\* the list is exactly now, now-1, ..., floor: entry k is k-1 months before now
C7_Descending(fy, fm) ==
    LET nowIdx == C7_Idx(today.year, today.month)
        n == nowIdx - C7_Idx(fy, fm) + 1
    IN  /\ Len(months) = n
        /\ \A k \in 1..Len(months) :
              months[k].label
                  = MonthLabel(C7_YearOf(nowIdx - (k - 1)), C7_MonthOf(nowIdx - (k - 1)))
        /\ (n = 1 => Len(months) = 1)

C7_AtOrAfter(fy, fm) == C7_Idx(today.year, today.month) >= C7_Idx(fy, fm)

C7_Returned == pc \in {"sales_months_returned", "kpi_months_returned"}

C7_ListRight ==
    /\ (pc = "sales_months_returned"
        /\ C7_AtOrAfter(SALES_START_YEAR, SALES_START_MONTH))
           => C7_Descending(SALES_START_YEAR, SALES_START_MONTH)
    /\ (pc = "kpi_months_returned"
        /\ C7_AtOrAfter(KPI_START_YEAR, KPI_START_MONTH))
           => /\ C7_Descending(KPI_START_YEAR, KPI_START_MONTH)
              /\ \A k \in 1..Len(months) :
                    /\ months[k].dt.day = 1
                    /\ MonthLabel(months[k].dt.year, months[k].dt.month)
                          = months[k].label

\* C7: for every "now" at or after the floor, get_sales_months (floor 2023-10)
\* and get_kpi_months (floor 2023-09) return the months from the month of "now"
\* down to the floor month, strictly descending, each exactly once and none
\* outside that range (one element when "now" is in the floor month), and the
\* loop terminates for every "now".
C7_MonthCoverage == [](C7_ListRight) /\ <>(C7_Returned)

\* a list that crosses two year boundaries was returned
C7_Witness ==
    /\ pc = "sales_months_returned"
    /\ today = [year |-> 2025, month |-> 2]
    /\ Len(months) = 17
    /\ months[1].label = "2025nen02gatsubun"
    /\ months[17].label = "2023nen10gatsubun"

C8_TwoDigits(n) == ToString(n \div 10) \o ToString(n % 10)

\* the Gregorian length of month m of year y
C8_LastDay(y, m) ==
    IF m = 2
    THEN (IF (y % 4 = 0 /\ y % 100 # 0) \/ y % 400 = 0 THEN 29 ELSE 28)
    ELSE IF m \in {4, 6, 9, 11} THEN 30 ELSE 31

C8_Date(y, m, d) ==
    ToString(y) \o "-" \o C8_TwoDigits(m) \o "-" \o C8_TwoDigits(d)

\* C8: get_month_start_end_dates returns from = Y-M-01, to = the last calendar
\* day of the same month Y-M (December gives Y-12-31), and the prefix Y-M, so
\* from <= to; 2024-02 gives 2024-02-01 .. 2024-02-29.
C8_DateRange ==
    pc = "dates_returned" =>
        /\ dates[1] = C8_Date(month_dt.year, month_dt.month, 1)
        /\ dates[2] = C8_Date(month_dt.year, month_dt.month,
                              C8_LastDay(month_dt.year, month_dt.month))
        /\ dates[3] = ToString(month_dt.year) \o "-" \o C8_TwoDigits(month_dt.month)
        /\ 1 <= C8_LastDay(month_dt.year, month_dt.month)
        /\ (month_dt = [year |-> 2024, month |-> 2, day |-> 1]
               => dates = <<"2024-02-01", "2024-02-29", "2024-02">>)

C8_Witness ==
    /\ pc = "dates_returned"
    /\ month_dt = [year |-> 2024, month |-> 2, day |-> 1]
    /\ dates = <<"2024-02-01", "2024-02-29", "2024-02">>

-----------------------------------------------------------------------------
(* Properties of the two runs.                                             *)

\* a csv text read back: the records of the file, each the list of its fields.
\* The position of the separator ending the field that starts at i.
RECURSIVE CsvFieldEnd(_, _, _)
CsvFieldEnd(text, i, quoted) ==
    IF i > Len(text) THEN i
    ELSE IF text[i] = "DQ" THEN CsvFieldEnd(text, i + 1, ~quoted)
    ELSE IF ~quoted /\ text[i] \in {",", "LF"} THEN i
    ELSE CsvFieldEnd(text, i + 1, quoted)

\* a quoted field's content with its doubled quotes read as one
RECURSIVE CsvUndouble(_)
CsvUndouble(inner) ==
    IF inner = <<>> THEN <<>>
    ELSE IF Head(inner) = "DQ" /\ Len(inner) >= 2 /\ inner[2] = "DQ"
    THEN <<"DQ">> \o CsvUndouble(Tail(Tail(inner)))
    ELSE <<Head(inner)>> \o CsvUndouble(Tail(inner))

CsvUnquote(raw) ==
    IF Len(raw) >= 2 /\ raw[1] = "DQ" /\ raw[Len(raw)] = "DQ"
    THEN CsvUndouble(SubSeq(raw, 2, Len(raw) - 1))
    ELSE raw

\* the record that starts at i: its fields, and where the next record starts
RECURSIVE ParseCsvRecord(_, _, _)
ParseCsvRecord(text, i, record) ==
    LET e == CsvFieldEnd(text, i, FALSE)
        fields == Append(record, CsvUnquote(SubSeq(text, i, e - 1)))
    IN  IF e <= Len(text) /\ text[e] = ","
        THEN ParseCsvRecord(text, e + 1, fields)
        ELSE [fields |-> fields, next |-> e + 1]

RECURSIVE ParseCsvFrom(_, _)
ParseCsvFrom(text, i) ==
    IF i > Len(text) THEN <<>>
    ELSE LET r == ParseCsvRecord(text, i, <<>>)
         IN  <<r.fields>> \o ParseCsvFrom(text, r.next)

ParseCsv(text) == ParseCsvFrom(text, 1)

\* the revenue unit in progress has been fetched
SalesFetched == pc = "sales_upload"

SalesKey == SalesKeys[unit]

\* the fetch got a page and did not take it for the login page
SalesPageTaken ==
    /\ ~response.exc
    /\ response.status_code < 400
    /\ ~(~response.body.table.found /\ (response.body.login \/ response.body.signup))

RunLogKeys == [i \in 1..Len(run_log) |-> run_log[i].of]

KpiLabels(list) == [i \in 1..Len(list) |-> MonthLabel(list[i].year, list[i].month)]

\* C1: whatever each unit's outcome, a revenue run executes time_charge,
\* premium_live and room_sales in that order and a KPI run every selected month
\* in ascending order; a unit that fails does not stop the run (the units
\* before the current one are all in the log whatever their outcome, and a
\* finished run has logged every unit) and no exception leaves the handlers.
C1_UnitIsolation ==
    /\ pc # "crashed"
    /\ pc \in {"sales_fetch", "sales_upload"} =>
          /\ unit \in 1..Len(SalesKeys)
          /\ RunLogKeys = SubSeq(SalesKeys, 1, unit - 1)
    /\ pc = "sales_done" => RunLogKeys = SalesKeys
    /\ pc \in {"kpi_page", "kpi_upload"} =>
          /\ unit \in 1..Len(selected_month_dt_list)
          /\ RunLogKeys = SubSeq(KpiLabels(selected_month_dt_list), 1, unit - 1)
    /\ pc = "kpi_done" =>
          /\ RunLogKeys = KpiLabels(selected_month_dt_list)
          /\ \A i \in 1..Len(selected_month_dt_list) - 1 :
                DtBefore(selected_month_dt_list[i], selected_month_dt_list[i + 1])
    /\ \A i \in 1..Len(run_log) : run_log[i].shown # "raised"

\* two units failed in different ways and the third was still uploaded
C1_Witness ==
    /\ pc = "sales_done"
    /\ run_log = << [of |-> "time_charge", shown |-> "auth_expired"],
                    [of |-> "premium_live", shown |-> "upload_failed"],
                    [of |-> "room_sales", shown |-> "uploaded"] >>
    /\ Len(ftp_log) = 2
    /\ ftp_log[2].for = "room_sales"
    /\ ftp_log[2].stored

\* the number of 28-cell rows after the first <tr> of the page last received
RECURSIVE C2_Count28(_)
C2_Count28(runs) ==
    IF runs = <<>> THEN 0
    ELSE (IF Head(runs).tr.n = 28 THEN Head(runs).count ELSE 0) + C2_Count28(Tail(runs))

C2_AcceptedOn(resp) ==
    IF resp.exc \/ resp.status_code >= 400 \/ ~resp.body.table.found
           \/ resp.body.table.rows = <<>>
    THEN 0
    ELSE C2_Count28(Tail(resp.body.table.rows))

RECURSIVE C2_SumAccepted(_)
C2_SumAccepted(log) ==
    IF log = <<>> THEN 0 ELSE Head(log).accepted + C2_SumAccepted(Tail(log))

C2_InKpiMonth == pc \in {"kpi_page", "kpi_upload"}

\* C2: the pages of a month are requested in the order 1, 2, ..., each once and
\* at most 5; page N+1 is requested only after page N returned a table with at
\* least 1000 accepted rows, and is requested then unless N = 5; the rows of
\* the page that stops the loop are in the result; pages with 1000, 1000 and
\* 400 accepted rows give 3 requests and 2400 rows before deduplication.
C2_PaginationStop ==
    C2_InKpiMonth =>
        /\ Len(page_log) <= KPI_MAX_PAGES
        /\ \A i \in 1..Len(page_log) : page_log[i].page = i
        /\ \A i \in 1..Len(page_log) - 1 :
              page_log[i].shown = "rows" /\ page_log[i].accepted >= 1000
        /\ page_log # <<>> => page_log[Len(page_log)].accepted = C2_AcceptedOn(response)
        /\ pc = "kpi_page" =>
              /\ page_num = Len(page_log) + 1
              /\ \A i \in 1..Len(page_log) : page_log[i].accepted >= 1000
        /\ (pc = "kpi_upload" /\ page_log[Len(page_log)].shown = "rows") =>
              \/ page_log[Len(page_log)].accepted < 1000
              \/ Len(page_log) = KPI_MAX_PAGES
        /\ (pc = "kpi_upload" /\ result.buffer) =>
              RunsTotal(all_kpi_data) = C2_SumAccepted(page_log)
        /\ (Len(page_log) >= 3 /\ page_log[3].accepted = 400) =>
              /\ pc = "kpi_upload"
              /\ Len(page_log) = 3
              /\ result.buffer
              /\ RunsTotal(all_kpi_data) = 2400

\* pages of 1000, 1000 and 400 accepted rows
C2_Witness ==
    /\ pc = "kpi_upload"
    /\ Len(page_log) = 3
    /\ page_log[1].accepted = 1000
    /\ page_log[2].accepted = 1000
    /\ page_log[3].accepted = 400
    /\ RunsTotal(all_kpi_data) = 2400
    /\ result.buffer

C3_HasResponse == pc \in {"sales_upload", "kpi_upload"} \/ (pc = "kpi_page" /\ page_log # <<>>)

C3_Failed == pc \in {"sales_upload", "kpi_upload"} /\ ~result.buffer /\ result.shown = "auth_expired"

\* C3 as stated: a login marker anywhere in the body of a fetched page fails
\* the unit as AUTH_EXPIRED, whether or not the body also holds a results table.
C3_AsStated ==
    (C3_HasResponse /\ ~response.exc /\ response.status_code = 200
        /\ (response.body.login \/ response.body.signup))
           => C3_Failed

\* C3 (amended): a fetched page without a results table whose body holds a
\* login marker (either marker for a revenue page, the login marker for a KPI
\* page) fails the unit as AUTH_EXPIRED, also with status 200: no document is
\* produced, and nothing is uploaded for a unit that failed that way.
C3_AuthExpired ==
    /\ (pc = "sales_upload" /\ ~response.exc /\ response.status_code = 200
            /\ ~response.body.table.found
            /\ (response.body.login \/ response.body.signup))
          => C3_Failed
    /\ (C3_HasResponse /\ pc # "sales_upload" /\ ~response.exc
            /\ response.status_code = 200
            /\ ~response.body.table.found /\ response.body.login)
          => C3_Failed
    /\ \A i \in 1..Len(run_log) :
          run_log[i].shown = "auth_expired"
              => \A j \in 1..Len(ftp_log) : ftp_log[j].for # run_log[i].of

\* the second page of a KPI month is the login page, with status 200
C3_Witness ==
    /\ pc = "kpi_upload"
    /\ Len(page_log) = 2
    /\ response.status_code = 200
    /\ ~response.body.table.found
    /\ response.body.login
    /\ ~result.buffer
    /\ result.shown = "auth_expired"
    /\ all_kpi_data # <<>>

Pairs(df) == [i \in 1..Len(df) |-> <<df[i].amount, df[i].account>>]

DocPairs(doc) == [i \in 1..Len(doc) |-> <<doc[i][1], doc[i][2]>>]

\* C4: a time_charge or premium_live unit whose fetch succeeds and is not
\* auth-expired always yields a document of at least one row: the single row
\* 0,dummy,<run timestamp> when no row was accepted (also when there is no
\* table and no login marker), and exactly the k accepted rows when k >= 1.
C4_StandardNonEmpty ==
    (SalesFetched /\ SalesKey # "room_sales" /\ SalesPageTaken) =>
        /\ result.buffer
        /\ LET doc == ParseCsv(result.csv)
               accepted == SalesTableData(response.body.table)
           IN  /\ Len(doc) >= 1
               /\ accepted = <<>> =>
                     doc = << << <<"0">>, <<"d", "u", "m", "m", "y">>, update_time_str >> >>
               /\ accepted # <<>> =>
                     /\ Len(doc) = Len(accepted)
                     /\ DocPairs(doc) = Pairs(accepted)

\* no table and no login marker: the sentinel row alone
C4_Witness ==
    /\ SalesFetched
    /\ SalesKey = "premium_live"
    /\ response.status_code = 200
    /\ ~response.body.table.found
    /\ ~response.body.login /\ ~response.body.signup
    /\ result.buffer
    /\ Len(ParseCsv(result.csv)) = 1
    /\ ParseCsv(result.csv)[1][2] = <<"d", "u", "m", "m", "y">>

C5_Total(total) ==
    IF total.found /\ total.match
    THEN SelectSeq(total.group, LAMBDA c : c \in DecimalDigits)
    ELSE <<"0">>

\* C5: the document of a room_sales unit starts with the row whose account is
\* MKsoul and whose amount is the matched total without separators, or 0 when
\* the summary element is absent or the pattern does not match; the accepted
\* rows follow in table order and no dummy row is added: 1 + accepted rows.
C5_TotalPlusRows ==
    (SalesFetched /\ SalesKey = "room_sales" /\ SalesPageTaken) =>
        /\ result.buffer
        /\ LET doc == ParseCsv(result.csv)
               accepted == SalesTableData(response.body.table)
           IN  /\ Len(doc) = 1 + Len(accepted)
               /\ doc[1][1] = C5_Total(response.body.total)
               /\ doc[1][2] = <<"M", "K", "s", "o", "u", "l">>
               /\ SubSeq(DocPairs(doc), 2, Len(doc)) = Pairs(accepted)

\* the pattern does not match although rows are present
C5_Witness ==
    /\ SalesFetched
    /\ SalesKey = "room_sales"
    /\ response.status_code = 200
    /\ response.body.total.found /\ ~response.body.total.match
    /\ Len(SalesTableData(response.body.table)) = 2
    /\ result.buffer
    /\ ParseCsv(result.csv)[1][1] = <<"0">>
    /\ ParseCsv(result.csv)[1][2] = <<"M", "K", "s", "o", "u", "l">>
    /\ Len(ParseCsv(result.csv)) = 3

\* YYYY/MM/DD HH:MM
C6_IsTimestamp(t) ==
    /\ Len(t) = 16
    /\ \A i \in {1, 2, 3, 4, 6, 7, 9, 10, 12, 13, 15, 16} : t[i] \in DecimalDigits
    /\ t[5] = "/" /\ t[8] = "/" /\ t[11] = " " /\ t[14] = ":"

\* C6: every revenue document has one or more records of exactly 3 fields and
\* no header record; the third field of the first record is the run timestamp
\* and that of every later record is empty; the first two fields are the
\* (amount, accountId) pairs of the shaped rows in their order.
C6_SparseTimestamp ==
    (SalesFetched /\ result.buffer) =>
        LET doc == ParseCsv(result.csv)
            shaped == SalesDfCleaned(response.body, SalesKey)
        IN  /\ Len(doc) >= 1
            /\ \A i \in 1..Len(doc) : Len(doc[i]) = 3
            /\ doc[1][3] = update_time_str
            /\ C6_IsTimestamp(doc[1][3])
            /\ \A i \in 2..Len(doc) : doc[i][3] = <<>>
            /\ DocPairs(doc) = Pairs(shaped)

\* three records, one of them with a comma inside its account
C6_Witness ==
    /\ SalesFetched
    /\ result.buffer
    /\ Len(ParseCsv(result.csv)) = 3
    /\ ParseCsv(result.csv)[2] = << <<"7">>, <<"a", ",", "b">>, <<>> >>
    /\ ParseCsv(result.csv)[3][3] = <<>>
    /\ ParseCsv(result.csv)[1][3] = update_time_str

C9_Firsts(collected) ==
    {i \in 1..Len(collected) :
        \A j \in 1..(i - 1) : KpiKey(collected[j].row) # KpiKey(collected[i].row)}

\* C9: the rows returned for a month hold no two rows with the same (account,
\* room, start, duration); the row kept for a key is the first one collected,
\* kept rows stay in their order, every key collected is kept once, and the
\* number reported as removed is rows collected minus rows kept.
C9_Dedup ==
    (pc = "kpi_upload" /\ result.buffer) =>
        LET kept == result.df
            firsts == C9_Firsts(all_kpi_data)
        IN  /\ \A i, j \in 1..Len(kept) : i # j => KpiKey(kept[i]) # KpiKey(kept[j])
            /\ Len(kept) = Cardinality(firsts)
            /\ \A i \in firsts :
                  kept[Cardinality({j \in firsts : j <= i})] = all_kpi_data[i].row
            /\ result.removed = RunsTotal(all_kpi_data) - Len(kept)

\* rows of two pages collapse: a duplicate from the second page is dropped
C9_Witness ==
    /\ pc = "kpi_upload"
    /\ result.buffer
    /\ Len(page_log) = 2
    /\ Len(all_kpi_data) = 3
    /\ Len(result.df) = 2
    /\ KpiKey(all_kpi_data[3].row) = KpiKey(all_kpi_data[1].row)
    /\ all_kpi_data[3].row # all_kpi_data[1].row
    /\ result.removed = RunsTotal(all_kpi_data) - 2

\* the claim's acceptance rule for a data row
C10_Accepts(td_tags) ==
    /\ Len(td_tags) >= 5
    /\ LET amount == RemoveChar(Strip(td_tags[4]), ",")
       IN  amount # <<>> /\ \A i \in 1..Len(amount) : amount[i] \in DecimalDigits

\* C10: a data row is accepted if and only if it has at least 5 cells and its
\* cell 3, thousands separators removed, is a non-empty string of the digits
\* 0-9; an accepted row gives (cell 3 without separators, cell 4).
C10_AcceptIff ==
    (SalesFetched /\ SalesPageTaken /\ response.body.table.found
        /\ response.body.table.rows # <<>>) =>
        LET data == Tail(response.body.table.rows)
            kept == SelectSeq(data, C10_Accepts)
        IN  Pairs(SalesTableData(response.body.table))
                = [i \in 1..Len(kept) |->
                      <<RemoveChar(Strip(kept[i][4]), ","), Strip(kept[i][5])>>]

-----------------------------------------------------------------------------
(* Properties of the KPI file and of the uploads.                          *)

\* a month's frame has been written to csv_buffer
KpiFileWritten == pc = "kpi_upload" /\ result.buffer

\* what the spec's transforms make of a 28-cell source row, column by column:
\* columns 3 and 4 both come from the third cell, every other column from the
\* cell at its own position
C11_Fields(tr) ==
    [h \in 1..28 |->
        CASE h = 3 -> (IF tr.time.match THEN ReplaceChar(tr.time.start, "-", "/")
                       ELSE <<>>)
          [] h = 4 -> (IF ~tr.time.match THEN <<"0">>
                       ELSE IntToChars(IF tr.time.s >= 30 THEN tr.time.m + 1
                                       ELSE tr.time.m))
          [] h \in {1, 2} -> (IF TdA(tr, h).found THEN Strip(TdA(tr, h).text)
                              ELSE Strip(TdText(tr, h)))
          [] h = 6 -> (IF TdDiv(tr, h).found THEN Strip(TdDiv(tr, h).text)
                       ELSE Strip(TdText(tr, h)))
          [] h = 10 -> RemoveChar(Strip(TdText(tr, h)), "%")
          [] h = 5 \/ h = 28 -> Strip(TdText(tr, h))
          [] OTHER -> RemoveChar(Strip(TdText(tr, h)), ",")]

C11_FieldsOf == [tr \in KpiRawRows |-> C11_Fields(tr)]

\* the file is the header line and one record per row of the frame, every
\* record of `width` fields
C11_TableOf(doc, width) ==
    /\ Len(doc) = 1 + Len(result.df)
    /\ \A i \in 1..Len(doc) : Len(doc[i]) = width

\* the files of up to two rows, read once
C11_KnownFiles ==
    {KpiToCsv(df) : df \in SeqsUpTo({KpiRowDataOf[tr] : tr \in KpiRawRows}, 2)}

C11_Parsed == [text \in C11_KnownFiles |-> ParseCsv(text)]

\* ParseCsv(text)
C11_Read(text) == IF text \in C11_KnownFiles THEN C11_Parsed[text] ELSE ParseCsv(text)

C11_Table(width) == KpiFileWritten => C11_TableOf(C11_Read(result.csv), width)

\* the header line names the columns and each record is a row of the frame,
\* made of a source row's cells
C11_Filled(doc) ==
    /\ doc[1] = [h \in 1..28 |-> <<CSV_HEADERS[h]>>]
    /\ Cardinality({CSV_HEADERS[h] : h \in 1..Len(CSV_HEADERS)}) = 28
    /\ \A i \in 2..Len(doc) :
          /\ doc[i] = result.df[i - 1]
          /\ \E tr \in KpiRawRows : doc[i] = C11_FieldsOf[tr]

C11_Layout(doc) == C11_TableOf(doc, 28) /\ C11_Filled(doc)

C12_StageOver == pc \in {"sales_upload", "kpi_upload"}

\* the stage met an HTTP error, a transport or parsing exception, or the
\* login page
C12_StageFailed ==
    /\ C12_StageOver
    /\ \/ response.exc
       \/ response.status_code >= 400
       \/ /\ pc = "sales_upload"
          /\ ~response.body.table.found
          /\ (response.body.login \/ response.body.signup)
       \/ /\ pc = "kpi_upload"
          /\ ~response.body.table.found
          /\ response.body.login

\* the unit in progress, as the logs name it, and its remote path
C12_Unit ==
    IF pc = "sales_upload" THEN SalesKeys[unit]
    ELSE MonthLabel(selected_month_dt_list[unit].year, selected_month_dt_list[unit].month)

C12_Path ==
    IF pc = "sales_upload" THEN FTP_TARGET_BASE_PATH \o SalesFilename(SalesKeys[unit])
    ELSE KPI_FTP_BASE_PATH
             \o ToString(selected_month_dt_list[unit].year) \o "-"
             \o Pad2(selected_month_dt_list[unit].month) \o "_all_all.csv"

\* one step of a run, seen from the remote side
C12_Step ==
    /\ C12_StageFailed => ~result.buffer
    /\ (C12_StageOver /\ result.buffer) =>
          /\ Len(ftp_log') = Len(ftp_log) + 1
          /\ SubSeq(ftp_log', 1, Len(ftp_log)) = ftp_log
          /\ ftp_log'[Len(ftp_log')].for = C12_Unit
          /\ ftp_log'[Len(ftp_log')].path = C12_Path
    /\ ~(C12_StageOver /\ result.buffer) => ftp_log' = ftp_log
    /\ \A i, j \in 1..Len(ftp_log') : ftp_log'[i].for = ftp_log'[j].for => i = j

\* C12: in any run an upload to the unit's remote path is attempted for a unit
\* if and only if its fetch-extract-shape stage returned a document; after a
\* failed stage (auth expired, HTTP error, transport or parsing exception)
\* nothing is sent for the unit, so the remote files stay as they were, and no
\* unit is uploaded more than once.
C12_UploadIffDocument == [][C12_Step]_vars

\* the first month failed on the login page and sent nothing; the second
\* month's file was stored
C12_Witness ==
    /\ pc = "kpi_done"
    /\ Len(run_log) = 2
    /\ run_log[1].shown = "auth_expired"
    /\ run_log[2].shown = "uploaded"
    /\ Len(ftp_log) = 1
    /\ ftp_log[1].for = run_log[2].of
    /\ ftp_log[1].path = "/mksoul-pro.com/showroom/csv/2024-02_all_all.csv"
    /\ ftp_log[1].stored

\* the month in progress has had its last page, page k
C13_MonthOver == pc = "kpi_upload" /\ page_log # <<>>

\* page k ended in an HTTP error, an exception, or no table and a login marker
C13_PageFailed ==
    \/ response.exc
    \/ response.status_code >= 400
    \/ (~response.body.table.found /\ response.body.login)

\* page k (status 200) had no table and no login marker, or a table of at most
\* its header row
C13_PageEndsData ==
    /\ ~response.exc
    /\ response.status_code < 400
    /\ \/ (~response.body.table.found /\ ~response.body.login)
       \/ (response.body.table.found /\ RunsTotal(response.body.table.rows) <= 1)

\* the rows accepted on pages 1..k-1, page by page, as page_log counted them
C13_Before == C2_SumAccepted(SubSeq(page_log, 1, Len(page_log) - 1))

\* the file is the header line and the first row collected of each key
C13_Kept(doc) ==
    LET firsts == C9_Firsts(all_kpi_data)
    IN  /\ Len(doc) = 1 + Cardinality(firsts)
        /\ Len(doc[1]) = Len(CSV_HEADERS)
        /\ \A i \in firsts :
              doc[1 + Cardinality({j \in firsts : j <= i})] = all_kpi_data[i].row
        /\ (C13_Before = 0) = (Len(doc) = 1)

\* C13: a KPI month is all-or-nothing on errors.  If page k ends in an HTTP
\* error, a transport or parsing exception, or a missing table with a login
\* marker, the month fails: the rows accepted on pages 1..k-1 are dropped, no
\* file is written, and nothing is ever uploaded for the month.  If page k has
\* no table and no login marker, or a header-only table, pagination ends
\* normally: the rows of pages 1..k-1 are kept, deduplicated and written to the
\* file that goes to the upload, a header-only file when there are none.
C13_AllOrNothing ==
    /\ (C13_MonthOver /\ C13_PageFailed) =>
          /\ ~result.buffer
          /\ result.df = <<>>
          /\ \A j \in 1..Len(ftp_log) : ftp_log[j].for # C12_Unit
    /\ (C13_MonthOver /\ C13_PageEndsData) =>
          /\ result.buffer
          /\ RunsTotal(all_kpi_data) = C13_Before
          /\ C13_Kept(C11_Read(result.csv))
    /\ \A i \in 1..Len(run_log) :
          run_log[i].shown \in {"auth_expired", "http_error", "unexpected_error"}
              => \A j \in 1..Len(ftp_log) : ftp_log[j].for # run_log[i].of

\* the third page raised after two full pages: 2000 rows are dropped
C13_Witness ==
    /\ C13_MonthOver
    /\ Len(page_log) = 3
    /\ response.exc
    /\ RunsTotal(all_kpi_data) = 2 * KPI_PAGE_FULL
    /\ ~result.buffer

====
